---- MODULE Spec2Model ----
(***************************************************************************)
(* html2pptx (index.js): a command-line pipeline that resolves an input to *)
(* a page URL, renders it to a PNG with a headless browser and wraps the   *)
(* PNG into a one-slide PPTX.  JavaScript strings are modelled as          *)
(* sequences of one-character strings, so that includes, startsWith,       *)
(* trim, replace and path resolution are computed character by character.  *)
(***************************************************************************)
EXTENDS Integers, Sequences, FiniteSets

VARIABLES entry, pc, opts, inputArg, errArg, fsExists, locals, req, pkg, err, result, probeLog,
          browserLog, docLog, stageLog, stdout, stderr, exitCode

vars == <<entry, pc, opts, inputArg, errArg, fsExists, locals, req, pkg, err, result, probeLog,
         browserLog, docLog, stageLog, stdout, stderr, exitCode>>

(***************************************************************************)
(* Strings                                                                 *)
(***************************************************************************)
LowerChars == <<"a", "b", "c", "d", "e", "f", "g", "h", "i", "j", "k", "l", "m", "n", "o", "p", "q", "r", "s", "t", "u", "v", "w", "x", "y", "z">>
UpperChars == <<"A", "B", "C", "D", "E", "F", "G", "H", "I", "J", "K", "L", "M", "N", "O", "P", "Q", "R", "S", "T", "U", "V", "W", "X", "Y", "Z">>
DigitChars == <<"0", "1", "2", "3", "4", "5", "6", "7", "8", "9">>

CharIndex(c, table) == IF \E i \in 1..Len(table) : table[i] = c
                       THEN CHOOSE i \in 1..Len(table) : table[i] = c
                       ELSE 0

\* String.prototype.toUpperCase / toLowerCase on one character
ToUpperCase(c) == IF CharIndex(c, LowerChars) # 0 THEN UpperChars[CharIndex(c, LowerChars)] ELSE c
ToLowerCase(c) == IF CharIndex(c, UpperChars) # 0 THEN LowerChars[CharIndex(c, UpperChars)] ELSE c

LowerStr(s) == [i \in 1..Len(s) |-> ToLowerCase(s[i])]

\* String.prototype.startsWith / endsWith / includes / substring / slice(1)
StartsWith(s, p) == Len(s) >= Len(p) /\ SubSeq(s, 1, Len(p)) = p
EndsWith(s, p) == Len(s) >= Len(p) /\ SubSeq(s, Len(s) - Len(p) + 1, Len(s)) = p
Includes(s, k) == \E i \in 0..(Len(s) - Len(k)) : SubSeq(s, i + 1, i + Len(k)) = k
Substring(s, from) == SubSeq(s, from + 1, Len(s))
CharAt0(s) == IF Len(s) = 0 THEN <<>> ELSE <<s[1]>>
UpperFirst(s) == [i \in 1..Len(CharAt0(s)) |-> ToUpperCase(s[i])]

\* String.prototype.trim: white space removed from both ends
WhiteSpace == {" ", "\t", "\n"}
RECURSIVE TrimStart(_)
TrimStart(s) == IF s # <<>> /\ Head(s) \in WhiteSpace THEN TrimStart(Tail(s)) ELSE s
RECURSIVE TrimEnd(_)
TrimEnd(s) == IF s # <<>> /\ s[Len(s)] \in WhiteSpace THEN TrimEnd(SubSeq(s, 1, Len(s) - 1)) ELSE s
Trim(s) == TrimEnd(TrimStart(s))

(***************************************************************************)
(* JavaScript values: primitives and error objects                         *)
(***************************************************************************)
Undefined == [t |-> "undefined", s |-> <<>>, n |-> 0]
Null == [t |-> "null", s |-> <<>>, n |-> 0]
Str(s) == [t |-> "string", s |-> s, n |-> 0]
Num(n) == [t |-> "number", s |-> <<>>, n |-> n]
NaN == [t |-> "NaN", s |-> <<>>, n |-> 0]

\* ToBoolean of a primitive
Truthy(v) == \/ v.t = "string" /\ v.s # <<>>
             \/ v.t = "number" /\ v.n # 0

\* A thrown value: a primitive (t, s) or an object (t = "object") with own
\* properties message, name, code and prototype Error or Object.
Prim(v) == [t |-> v.t, s |-> v.s, n |-> v.n, proto |-> "none",
            message |-> Undefined, name |-> Undefined, code |-> Undefined]
ErrorObj(message, name, code) ==
    [t |-> "object", s |-> <<>>, n |-> 0, proto |-> "Error",
     message |-> message, name |-> name, code |-> code]
PlainObj(message, name, code) ==
    [t |-> "object", s |-> <<>>, n |-> 0, proto |-> "Object",
     message |-> message, name |-> name, code |-> code]
NewError(msg) == ErrorObj(Str(msg), Undefined, Undefined)

\* Property read e.message / e.name / e.code.  Reading a property of null or
\* undefined throws; the caller tests Nullish first.  Error.prototype supplies
\* name "Error" and message "" when the object has no own property.
Nullish(e) == e.t \in {"null", "undefined"}
PropMessage(e) == IF e.t # "object" THEN Undefined
                  ELSE IF e.message = Undefined /\ e.proto = "Error" THEN Str(<<>>)
                  ELSE e.message
PropName(e) == IF e.t # "object" THEN Undefined
               ELSE IF e.name = Undefined /\ e.proto = "Error" THEN Str(<<"E", "r", "r", "o", "r">>)
               ELSE e.name
PropCode(e) == IF e.t # "object" THEN Undefined ELSE e.code

\* Number.prototype.toString of an integer
RECURSIVE Digits(_)
Digits(n) == IF n < 10 THEN <<DigitChars[n + 1]>>
             ELSE Digits(n \div 10) \o <<DigitChars[(n % 10) + 1]>>
NumberToString(n) == IF n < 0 THEN <<"-">> \o Digits(0 - n) ELSE Digits(n)

\* String(v) of a primitive
PrimToString(v) == IF v.t = "undefined" THEN <<"u", "n", "d", "e", "f", "i", "n", "e", "d">>
                   ELSE IF v.t = "null" THEN <<"n", "u", "l", "l">>
                   ELSE IF v.t = "number" THEN NumberToString(v.n)
                   ELSE IF v.t = "NaN" THEN <<"N", "a", "N">>
                   ELSE v.s

\* String(e): the primitive itself, Error.prototype.toString or
\* Object.prototype.toString
StringOf(e) ==
    IF e.t # "object" THEN PrimToString(e)
    ELSE IF e.proto = "Object" THEN <<"[", "o", "b", "j", "e", "c", "t", " ", "O", "b", "j", "e", "c", "t", "]">>
    ELSE LET n == PrimToString(PropName(e))
             m == PrimToString(PropMessage(e))
         IN IF n = <<>> THEN m
            ELSE IF m = <<>> THEN n
            ELSE n \o <<":", " ">> \o m

(***************************************************************************)
(* formatError                                                             *)
(***************************************************************************)
Raised == [raised |-> TRUE, value |-> <<>>]
Returned(s) == [raised |-> FALSE, value |-> s]

RuleKeys == <<
    <<"H", "T", "M", "L", " ", "f", "i", "l", "e", " ", "n", "o", "t", " ", "f", "o", "u", "n", "d">>,
    <<"S", "e", "l", "e", "c", "t", "o", "r", " ", "n", "o", "t", " ", "f", "o", "u", "n", "d">>,
    <<>>,
    <<>>,
    <<"n", "e", "t", ":", ":", "E", "R", "R", "_">>,
    <<"m", "i", "s", "s", "i", "n", "g", " ", "r", "e", "q", "u", "i", "r", "e", "d", " ", "a", "r", "g", "u", "m", "e", "n", "t", " ", "'", "i", "n", "p", "u", "t", "'">>,
    <<"w", "a", "i", "t", "U", "n", "t", "i", "l", ":", " ", "e", "x", "p", "e", "c", "t", "e", "d", " ", "o", "n", "e", " ", "o", "f">> >>

RuleMsgs == <<
    <<"T", "h", "e", " ", "H", "T", "M", "L", " ", "f", "i", "l", "e", " ", "d", "o", "e", "s", " ", "n", "o", "t", " ", "e", "x", "i", "s", "t", ".", " ", "P", "l", "e", "a", "s", "e", " ", "c", "h", "e", "c", "k", " ", "t", "h", "e", " ", "f", "i", "l", "e", " ", "p", "a", "t", "h", ".">>,
    <<"T", "h", "e", " ", "C", "S", "S", " ", "s", "e", "l", "e", "c", "t", "o", "r", " ", "w", "a", "s", " ", "n", "o", "t", " ", "f", "o", "u", "n", "d", ".", " ", "P", "l", "e", "a", "s", "e", " ", "c", "h", "e", "c", "k", " ", "y", "o", "u", "r", " ", "-", "-", "s", "e", "l", "e", "c", "t", "o", "r", ".">>,
    <<"T", "h", "e", " ", "p", "a", "g", "e", " ", "t", "o", "o", "k", " ", "t", "o", "o", " ", "l", "o", "n", "g", " ", "t", "o", " ", "l", "o", "a", "d", ".", " ", "P", "l", "e", "a", "s", "e", " ", "t", "r", "y", " ", "a", " ", "l", "a", "r", "g", "e", "r", " ", "-", "-", "t", "i", "m", "e", "o", "u", "t", ".">>,
    <<"C", "o", "u", "l", "d", " ", "n", "o", "t", " ", "s", "a", "v", "e", " ", "t", "h", "e", " ", "f", "i", "l", "e", ".", " ", "P", "l", "e", "a", "s", "e", " ", "c", "h", "e", "c", "k", " ", "t", "h", "e", " ", "f", "o", "l", "d", "e", "r", " ", "p", "a", "t", "h", " ", "a", "n", "d", " ", "y", "o", "u", "r", " ", "p", "e", "r", "m", "i", "s", "s", "i", "o", "n", "s", ".">>,
    <<"T", "h", "e", " ", "U", "R", "L", " ", "i", "s", " ", "n", "o", "t", " ", "v", "a", "l", "i", "d", " ", "o", "r", " ", "t", "h", "e", " ", "w", "e", "b", "s", "i", "t", "e", " ", "c", "o", "u", "l", "d", " ", "n", "o", "t", " ", "b", "e", " ", "r", "e", "a", "c", "h", "e", "d", ".", " ", "P", "l", "e", "a", "s", "e", " ", "c", "h", "e", "c", "k", " ", "y", "o", "u", "r", " ", "i", "n", "p", "u", "t", ".">>,
    <<"P", "l", "e", "a", "s", "e", " ", "p", "r", "o", "v", "i", "d", "e", " ", "a", "n", " ", "H", "T", "M", "L", " ", "f", "i", "l", "e", " ", "p", "a", "t", "h", " ", "o", "r", " ", "U", "R", "L", ".">>,
    <<"I", "n", "v", "a", "l", "i", "d", " ", "w", "a", "i", "t", " ", "s", "t", "r", "a", "t", "e", "g", "y", ".", " ", "P", "l", "e", "a", "s", "e", " ", "u", "s", "e", " ", "o", "n", "e", " ", "o", "f", ":", " ", "l", "o", "a", "d", ",", " ", "d", "o", "m", "c", "o", "n", "t", "e", "n", "t", "l", "o", "a", "d", "e", "d", ",", " ", "n", "e", "t", "w", "o", "r", "k", "i", "d", "l", "e", ",", " ", "c", "o", "m", "m", "i", "t", ".">> >>

\* r.key ? message.includes(r.key) : r.test()
RuleMatches(r, e, message) ==
    IF RuleKeys[r] # <<>> THEN Includes(message, RuleKeys[r])
    ELSE IF r = 3 THEN PropName(e) = Str(<<"T", "i", "m", "e", "o", "u", "t", "E", "r", "r", "o", "r">>)
    ELSE PropCode(e) = Str(<<"E", "N", "O", "E", "N", "T">>)

\* rules.find(...): the index of the first matching rule, 0 when none matches
MatchedRule(e, message) ==
    IF \E r \in 1..Len(RuleKeys) : RuleMatches(r, e, message)
    THEN CHOOSE r \in 1..Len(RuleKeys) :
            /\ RuleMatches(r, e, message)
            /\ \A q \in 1..(r - 1) : ~RuleMatches(q, e, message)
    ELSE 0

\* const message = err.message || String(err)
RawMessage(e) == IF Truthy(PropMessage(e)) THEN PropMessage(e) ELSE Str(StringOf(e))

ErrorPrefixLen == 7


\* Variant: the first letter is capitalized only when the "error: " prefix
\* was removed
DisplayMessage_CapitalizeOnlyStripped(message) ==
    IF StartsWith(message, <<"e", "r", "r", "o", "r", ":", " ">>)
    THEN UpperFirst(Substring(message, ErrorPrefixLen))
         \o Substring(Substring(message, ErrorPrefixLen), 1)
    ELSE message

DisplayMessage(message) ==
    LET stripped == IF StartsWith(message, <<"e", "r", "r", "o", "r", ":", " ">>)
                    THEN Substring(message, ErrorPrefixLen) ELSE message
    IN UpperFirst(stripped) \o Substring(stripped, 1)

formatError(e) ==
    IF Nullish(e) THEN Raised
    ELSE IF RawMessage(e).t # "string" THEN Raised
    ELSE LET message == RawMessage(e).s
             matched == MatchedRule(e, message)
         IN IF matched # 0 THEN Returned(<<"E", "r", "r", "o", "r", ":", " ">> \o RuleMsgs[matched])
            ELSE Returned(<<"E", "r", "r", "o", "r", ":", " ">> \o DisplayMessage(message))

(***************************************************************************)
(* isHttpUrl / toPageUrl                                                   *)
(***************************************************************************)
\* new URL(s) first strips leading and trailing C0 control characters and
\* spaces, and removes every tab and newline.
UrlInput(s) == SelectSeq(Trim(s), LAMBDA c : c \notin {"\t", "\n"})

IsAlpha(c) == CharIndex(c, LowerChars) # 0 \/ CharIndex(c, UpperChars) # 0
IsDigit(c) == CharIndex(c, DigitChars) # 0
IsSchemeChar(c) == IsAlpha(c) \/ IsDigit(c) \/ c \in {"+", "-", "."}
IsHostChar(c) == IsAlpha(c) \/ IsDigit(c) \/ c \in {"-", "."}

\* Position of the first character of s that is in set, Len(s) + 1 when none
FirstIn(s, set) == IF \E i \in 1..Len(s) : s[i] \in set
                   THEN CHOOSE i \in 1..Len(s) :
                           s[i] \in set /\ \A j \in 1..(i - 1) : s[j] \notin set
                   ELSE Len(s) + 1

\* The lower-cased scheme of an absolute URL, <<>> when s has none (new URL
\* throws: there is no base URL to resolve a relative reference against)
UrlScheme(s) ==
    LET t == UrlInput(s)
        k == FirstIn(t, {":"})
    IN IF k > Len(t) \/ k = 1 THEN <<>>
       ELSE IF ~IsAlpha(t[1]) THEN <<>>
       ELSE IF \E i \in 2..(k - 1) : ~IsSchemeChar(t[i]) THEN <<>>
       ELSE LowerStr(SubSeq(t, 1, k - 1))

RECURSIVE SkipSlashes(_)
SkipSlashes(s) == IF s # <<>> /\ Head(s) \in {"/", "\\"} THEN SkipSlashes(Tail(s)) ELSE s

\* The host of a special-scheme URL: what follows the scheme's colon and any
\* run of slashes, up to the path, query or fragment.  Hosts with userinfo,
\* a port or an IPv6 literal are outside the inputs modelled.
UrlHost(s) ==
    LET t == UrlInput(s)
        rest == SkipSlashes(Substring(t, FirstIn(t, {":"})))
    IN SubSeq(rest, 1, FirstIn(rest, {"/", "\\", "?", "#"}) - 1)

\* new URL(s) succeeds for an http(s) URL only with a non-empty valid host
isHttpUrl(s) ==
    /\ UrlScheme(s) \in { <<"h", "t", "t", "p">>, <<"h", "t", "t", "p", "s">> }
    /\ UrlHost(s) # <<>>
    /\ \A i \in 1..Len(UrlHost(s)) : IsHostChar(UrlHost(s)[i])

\* process.cwd()
Cwd == <<"/", "w">>

\* s split at "/" into its segments
RECURSIVE Segments(_)
Segments(s) ==
    LET k == FirstIn(s, {"/"})
    IN IF k > Len(s) THEN <<s>>
       ELSE <<SubSeq(s, 1, k - 1)>> \o Segments(Substring(s, k))

\* path normalisation: empty and "." segments dropped, ".." removes the
\* segment before it (and is dropped at the root)
RECURSIVE NormSegs(_, _)
NormSegs(segs, acc) ==
    IF segs = <<>> THEN acc
    ELSE IF Head(segs) = <<>> \/ Head(segs) = <<".">> THEN NormSegs(Tail(segs), acc)
    ELSE IF Head(segs) = <<".", ".">>
         THEN NormSegs(Tail(segs), SubSeq(acc, 1, Len(acc) - 1))
    ELSE NormSegs(Tail(segs), Append(acc, Head(segs)))

RECURSIVE JoinSegs(_)
JoinSegs(segs) == IF segs = <<>> THEN <<>>
                  ELSE <<"/">> \o Head(segs) \o JoinSegs(Tail(segs))

\* path.resolve(p) on POSIX: relative paths are taken from the working
\* directory; the result is absolute and normalised
PathResolve(p) ==
    LET abs == IF StartsWith(p, <<"/">>) THEN p ELSE Cwd \o <<"/">> \o p
        segs == NormSegs(Segments(abs), <<>>)
    IN IF segs = <<>> THEN <<"/">> ELSE JoinSegs(segs)

\* pathToFileURL(p).toString(): characters that cannot stand in a URL path
\* are percent-encoded
EncodeChar(c) == IF c = " " THEN <<"%", "2", "0">>
                 ELSE IF c = "%" THEN <<"%", "2", "5">>
                 ELSE IF c = "#" THEN <<"%", "2", "3">>
                 ELSE IF c = "?" THEN <<"%", "3", "F">>
                 ELSE <<c>>
RECURSIVE EncodePath(_)
EncodePath(p) == IF p = <<>> THEN <<>> ELSE EncodeChar(Head(p)) \o EncodePath(Tail(p))
pathToFileURL(p) == <<"f", "i", "l", "e", ":", "/", "/">> \o EncodePath(p)


\* Variant: the existence check is made before the input is classified
toPageUrl_ProbesFirst(input, exists) ==
    LET p == PathResolve(input)
    IN IF isHttpUrl(input)
       THEN [raised |-> FALSE, value |-> input, error |-> Prim(Undefined), probes |-> <<p>>]
       ELSE IF ~exists
       THEN [raised |-> TRUE, value |-> <<>>,
             error |-> NewError(<<"H", "T", "M", "L", " ", "f", "i", "l", "e", " ", "n", "o", "t", " ", "f", "o", "u", "n", "d", ":", " ">> \o p), probes |-> <<p>>]
       ELSE [raised |-> FALSE, value |-> pathToFileURL(p),
             error |-> Prim(Undefined), probes |-> <<p>>]

\* toPageUrl(input, _fs): exists is the answer _fs.existsSync gives for the
\* resolved path.  probes lists the paths handed to _fs.existsSync.
toPageUrl(input, exists) ==
    IF isHttpUrl(input)
    THEN [raised |-> FALSE, value |-> input, error |-> Prim(Undefined), probes |-> <<>>]
    ELSE LET p == PathResolve(input)
         IN IF ~exists
            THEN [raised |-> TRUE, value |-> <<>>,
                  error |-> NewError(<<"H", "T", "M", "L", " ", "f", "i", "l", "e", " ", "n", "o", "t", " ", "f", "o", "u", "n", "d", ":", " ">> \o p), probes |-> <<p>>]
            ELSE [raised |-> FALSE, value |-> pathToFileURL(p),
                  error |-> Prim(Undefined), probes |-> <<p>>]

(***************************************************************************)
(* main: option processing                                                 *)
(***************************************************************************)

\* Variant: the extension is matched case-sensitively (/\.pptx$/)
StripPptx_CaseSensitive(p) == IF EndsWith(p, <<".", "p", "p", "t", "x">>) THEN SubSeq(p, 1, Len(p) - 5) ELSE p

\* pptxPath.replace(/\.pptx$/i, "")
StripPptx(p) == IF EndsWith(LowerStr(p), <<".", "p", "p", "t", "x">>) THEN SubSeq(p, 1, Len(p) - 5) ELSE p

\* const pptxPath = path.resolve(opts.out)
MainPptxPath(o) == PathResolve(o.out)

\* const pngPath = opts.png ? path.resolve(opts.png) : pptxPath.replace(...) + ".png"
MainPngPath(o) == IF Truthy(o.png) THEN PathResolve(o.png.s)
                  ELSE StripPptx(MainPptxPath(o)) \o <<".", "p", "n", "g">>


\* Variant: the selector is not trimmed (opts.selector || null)
MainSelector_NoTrim(o) == IF Truthy(Str(o.selector)) THEN Str(o.selector) ELSE Null

\* const selector = opts.selector?.trim() || null
MainSelector(o) == IF Truthy(Str(Trim(o.selector))) THEN Str(Trim(o.selector)) ELSE Null

\* The error commander throws from program.parse under exitOverride()
CommanderError(kind) ==
    IF kind = "help"
    THEN ErrorObj(Str(<<"(", "o", "u", "t", "p", "u", "t", "H", "e", "l", "p", ")">>), Str(<<"C", "o", "m", "m", "a", "n", "d", "e", "r", "E", "r", "r", "o", "r">>), Str(<<"c", "o", "m", "m", "a", "n", "d", "e", "r", ".", "h", "e", "l", "p", "D", "i", "s", "p", "l", "a", "y", "e", "d">>))
    ELSE IF kind = "missingArgument"
    THEN ErrorObj(Str(<<"e", "r", "r", "o", "r", ":", " ", "m", "i", "s", "s", "i", "n", "g", " ", "r", "e", "q", "u", "i", "r", "e", "d", " ", "a", "r", "g", "u", "m", "e", "n", "t", " ", "'", "i", "n", "p", "u", "t", "'">>), Str(<<"C", "o", "m", "m", "a", "n", "d", "e", "r", "E", "r", "r", "o", "r">>),
                  Str(<<"c", "o", "m", "m", "a", "n", "d", "e", "r", ".", "m", "i", "s", "s", "i", "n", "g", "A", "r", "g", "u", "m", "e", "n", "t">>))
    ELSE IF kind = "unknownOption"
    THEN ErrorObj(Str(<<"e", "r", "r", "o", "r", ":", " ", "u", "n", "k", "n", "o", "w", "n", " ", "o", "p", "t", "i", "o", "n", " ", "'", "-", "-", "x", "'">>), Str(<<"C", "o", "m", "m", "a", "n", "d", "e", "r", "E", "r", "r", "o", "r">>),
                  Str(<<"c", "o", "m", "m", "a", "n", "d", "e", "r", ".", "u", "n", "k", "n", "o", "w", "n", "O", "p", "t", "i", "o", "n">>))
    ELSE ErrorObj(Str(<<"e", "r", "r", "o", "r", ":", " ", "o", "p", "t", "i", "o", "n", " ", "'", "-", "-", "p", "n", "g", " ", "<", "p", "n", "g", ">", "'", " ", "a", "r", "g", "u", "m", "e", "n", "t", " ", "m", "i", "s", "s", "i", "n", "g">>), Str(<<"C", "o", "m", "m", "a", "n", "d", "e", "r", "E", "r", "r", "o", "r">>),
                  Str(<<"c", "o", "m", "m", "a", "n", "d", "e", "r", ".", "o", "p", "t", "i", "o", "n", "M", "i", "s", "s", "i", "n", "g", "A", "r", "g", "u", "m", "e", "n", "t">>))


\* Variant: every commander.* error ends the process silently
CatchOutcome_AnyCommanderCode(e) ==
    IF Nullish(e) \/ (Truthy(PropCode(e)) /\ PropCode(e).t # "string")
    THEN [stderr |-> << <<"U", "n", "c", "a", "u", "g", "h", "t", " ", "T", "y", "p", "e", "E", "r", "r", "o", "r">> >>, exitCode |-> 1]
    ELSE IF Truthy(PropCode(e)) /\ StartsWith(PropCode(e).s, <<"c", "o", "m", "m", "a", "n", "d", "e", "r", ".">>)
    THEN [stderr |-> <<>>, exitCode |-> 0]
    ELSE IF formatError(e).raised
    THEN [stderr |-> << <<"U", "n", "c", "a", "u", "g", "h", "t", " ", "T", "y", "p", "e", "E", "r", "r", "o", "r">> >>, exitCode |-> 1]
    ELSE [stderr |-> <<formatError(e).value>>, exitCode |-> 1]

\* The entry point's catch handler: what it writes to stderr and the exit code
HelpCodes == { <<"c", "o", "m", "m", "a", "n", "d", "e", "r", ".", "h", "e", "l", "p", "D", "i", "s", "p", "l", "a", "y", "e", "d">>, <<"c", "o", "m", "m", "a", "n", "d", "e", "r", ".", "h", "e", "l", "p">>, <<"c", "o", "m", "m", "a", "n", "d", "e", "r", ".", "v", "e", "r", "s", "i", "o", "n">> }
UncaughtLine == <<"U", "n", "c", "a", "u", "g", "h", "t", " ", "T", "y", "p", "e", "E", "r", "r", "o", "r">>
CatchOutcome(e) ==
    IF Nullish(e) \/ (Truthy(PropCode(e)) /\ PropCode(e).t # "string")
    THEN [stderr |-> <<UncaughtLine>>, exitCode |-> 1]
    ELSE IF /\ Truthy(PropCode(e))
            /\ StartsWith(PropCode(e).s, <<"c", "o", "m", "m", "a", "n", "d", "e", "r", ".">>)
            /\ PropCode(e).s \in HelpCodes
    THEN [stderr |-> <<>>, exitCode |-> 0]
    ELSE IF formatError(e).raised
    THEN [stderr |-> <<UncaughtLine>>, exitCode |-> 1]
    ELSE [stderr |-> <<formatError(e).value>>, exitCode |-> 1]

(***************************************************************************)
(* Bounds and input domains                                                *)
(***************************************************************************)
\* a locator reports 0..MaxCount matching elements
MaxCount == 2
\* an error message is built from at most MaxFrags fragments
MaxFrags == 2

MsgFrags == { <<"e", "r", "r", "o", "r", ":", " ">>, <<"b", "o", "o", "m">>, <<"H", "T", "M", "L", " ", "f", "i", "l", "e", " ", "n", "o", "t", " ", "f", "o", "u", "n", "d">>, <<"S", "e", "l", "e", "c", "t", "o", "r", " ", "n", "o", "t", " ", "f", "o", "u", "n", "d">>,
              <<"n", "e", "t", ":", ":", "E", "R", "R", "_">>, <<"m", "i", "s", "s", "i", "n", "g", " ", "r", "e", "q", "u", "i", "r", "e", "d", " ", "a", "r", "g", "u", "m", "e", "n", "t", " ", "'", "i", "n", "p", "u", "t", "'">>,
              <<"w", "a", "i", "t", "U", "n", "t", "i", "l", ":", " ", "e", "x", "p", "e", "c", "t", "e", "d", " ", "o", "n", "e", " ", "o", "f">>, <<":", " ", "x">> }

RECURSIVE Concats(_)
Concats(k) == IF k = 0 THEN {<<>>}
              ELSE Concats(k - 1) \cup {f \o m : f \in MsgFrags, m \in Concats(k - 1)}
Messages == Concats(MaxFrags)

MessageValues == {Undefined, Num(0), Num(42)} \cup {Str(m) : m \in Messages}
NameValues == {Undefined, Str(<<>>), Str(<<"T", "i", "m", "e", "o", "u", "t", "E", "r", "r", "o", "r">>)}
CodeValues == {Undefined, Str(<<"E", "N", "O", "E", "N", "T">>)}

\* the values formatError is called with
ErrArgs ==
    {Prim(Null), Prim(Undefined), Prim(Num(0)), Prim(Num(42))}
    \cup {Prim(Str(m)) : m \in Messages}
    \cup {ErrorObj(m, n, c) : m \in MessageValues, n \in NameValues, c \in CodeValues}
    \cup {PlainObj(m, n, c) : m \in {Undefined, Str(<<>>), Str(<<"b", "o", "o", "m">>), Num(42)},
                              n \in NameValues, c \in CodeValues}

\* the strings toPageUrl is called with
ResolveInputs == { <<"h", "t", "t", "p", ":", "/", "/", "a", ".", "b">>, <<"h", "t", "t", "p", "s", ":", "/", "/", "a", ".", "b", "/", "x", " ", "y">>, <<"H", "T", "T", "P", ":", "/", "/", "A", ".", "B">>, <<" ", "h", "t", "t", "p", ":", "/", "/", "a">>,
                   <<"h", "t", "t", "p", ":", "/", "/">>, <<"f", "t", "p", ":", "/", "/", "a">>, <<"f", "i", "l", "e", ":", "/", "/", "/", "a">>, <<"a", ".", "h", "t", "m", "l">>, <<".", "/", "a", ".", "h", "t", "m", "l">>,
                   <<".", ".", "/", "a", " ", "b", ".", "h", "t", "m", "l">>, <<"/", "t", "/", "a", "#", "b", ".", "h", "t", "m", "l">>, <<>> }

\* the command lines main is run with, after commander's option processing
CliInputs == { <<"h", "t", "t", "p", ":", "/", "/", "a", ".", "b">>, <<"a", ".", "h", "t", "m", "l">>, <<".", ".", "/", "a", " ", "b", ".", "h", "t", "m", "l">>, <<"f", "t", "p", ":", "/", "/", "a">> }
CliOuts == { <<"s", "l", "i", "d", "e", ".", "p", "p", "t", "x">>, <<"D", "e", "c", "k", ".", "P", "P", "T", "X">>, <<"/", "t", "/", "a", ".", "p", "p", "t">>, <<"d", "e", "c", "k">>, <<".", ".", "/", "a", ".", "b", ".", "p", "p", "t", "x">> }
CliPngs == {Undefined, Str(<<>>), Str(<<"p", ".", "p", "n", "g">>), Str(<<"/", "t", "/", ".", ".", "/", "q", ".", "P", "N", "G">>)}
CliSelectors == { <<>>, <<" ">>, <<"\t", " ", "\n">>, <<".", "a">>, <<" ", ".", "a", " ">>, <<"a", " ", "b">> }

DefaultWidth == 960
DefaultHeight == 540
DefaultScale == 2
DefaultTimeout == 30000

\* parseInt(v, 10): leading white space and one sign are skipped, the longest
\* run of decimal digits is read and the rest ignored; NaN without a digit
RECURSIVE DigitPrefix(_)
DigitPrefix(s) == IF s # <<>> /\ IsDigit(Head(s)) THEN <<Head(s)>> \o DigitPrefix(Tail(s))
                  ELSE <<>>
RECURSIVE DigitsValue(_)
DigitsValue(d) == IF d = <<>> THEN 0
                  ELSE 10 * DigitsValue(SubSeq(d, 1, Len(d) - 1))
                       + (CharIndex(d[Len(d)], DigitChars) - 1)
ParseInt10(v) ==
    LET t == TrimStart(v)
        signed == t # <<>> /\ Head(t) \in {"+", "-"}
        d == DigitPrefix(IF signed THEN Tail(t) ELSE t)
    IN IF d = <<>> THEN NaN
       ELSE IF signed /\ Head(t) = "-" THEN Num(0 - DigitsValue(d))
       ELSE Num(DigitsValue(d))

\* .option("--width <n>", ..., (v) => parseInt(v, 10), 960): the default when
\* the option is absent, else the parser applied to its argument
OptionInt(raw, default) == IF raw = Undefined THEN Num(default) ELSE ParseInt10(raw.s)

\* .option("--wait <strategy>", ..., "networkidle"): the argument as given
OptionWait(raw) == IF raw = Undefined THEN Str(<<"n", "e", "t", "w", "o", "r", "k", "i", "d", "l", "e">>) ELSE raw

\* the arguments given to --width/--height, --scale, --timeout and --wait
\* (Undefined: the option is absent)
RawSizes == {Undefined, Str(<<"1", "2", "8", "0">>), Str(<<"0">>), Str(<<"-", "5">>), Str(<<"a", "b", "c">>)}
RawScales == {Undefined, Str(<<"1", ".", "5">>), Str(<<"0", ".", "5">>)}
RawTimeouts == {Undefined, Str(<<"5", "0", "0", "0">>), Str(<<"0">>), Str(<<"1", "2", "s">>)}
RawWaits == {Undefined, Str(<<"l", "o", "a", "d">>), Str(<<"i", "d", "l", "e">>)}

Options(kind, inp, out, png, sel) ==
    [kind |-> kind, input |-> inp, out |-> out, png |-> png, selector |-> sel,
     width |-> Num(DefaultWidth), height |-> Num(DefaultHeight), scale |-> Num(DefaultScale),
     timeout |-> Num(DefaultTimeout), wait |-> Str(<<"n", "e", "t", "w", "o", "r", "k", "i", "d", "l", "e">>)]
NoOptions == Options("none", <<>>, <<>>, Undefined, <<>>)
TunedOptions(w, h, sc, to, wait) ==
    [Options("ok", <<"h", "t", "t", "p", ":", "/", "/", "a", ".", "b">>, <<"s", "l", "i", "d", "e", ".", "p", "p", "t", "x">>, Undefined, <<>>) EXCEPT
        !.width = OptionInt(w, DefaultWidth),
        !.height = OptionInt(h, DefaultHeight),
        !.scale = OptionInt(sc, DefaultScale),
        !.timeout = OptionInt(to, DefaultTimeout),
        !.wait = OptionWait(wait)]
ParseFailures == {"help", "missingArgument", "unknownOption", "optionMissingArgument"}
CliOptions ==
    {Options("ok", i, o, p, s) : i \in CliInputs, o \in CliOuts, p \in CliPngs, s \in CliSelectors}
    \cup {Options(k, <<>>, <<"s", "l", "i", "d", "e", ".", "p", "p", "t", "x">>, Undefined, <<>>) : k \in ParseFailures}
    \cup {TunedOptions(w, h, sc, to, wait) :
              w \in RawSizes, h \in RawSizes, sc \in RawScales, to \in RawTimeouts,
              wait \in RawWaits}

Request(url, png, sel, w, h, sc, to, wait) ==
    [pageUrl |-> url, pngPath |-> png, selector |-> sel, width |-> w, height |-> h,
     scale |-> sc, timeout |-> to, waitUntil |-> wait]
NoRequest == Request(<<>>, <<>>, Null, Undefined, Undefined, Undefined, Undefined, Undefined)
\* the requests renderToPng is called with directly
DirectSelectors == {Null, Undefined, Str(<<>>), Str(<<" ">>), Str(<<".", "s", "l", "i", "d", "e">>), Str(<<".", "n", "o", "t", "f", "o", "u", "n", "d">>)}
DirectRequests ==
    {Request(<<"h", "t", "t", "p", ":", "/", "/", "e", "x", "a", "m", "p", "l", "e", ".", "c", "o", "m">>, <<"o", "u", "t", ".", "p", "n", "g">>, sel, Num(DefaultWidth), Num(DefaultHeight),
             Num(DefaultScale), Undefined, Undefined) : sel \in DirectSelectors}

Package(png, pptx, wide) == [pngPath |-> png, pptxPath |-> pptx, widescreen |-> wide]
NoPackage == Package(<<>>, <<>>, "undefined")
\* the requests pngToPptx is called with directly
DirectPackages == {Package(<<"t", "e", "s", "t", ".", "p", "n", "g">>, <<"t", "e", "s", "t", ".", "p", "p", "t", "x">>, w) : w \in {"true", "false", "undefined"}}

NoLocals == [pptxPath |-> <<>>, pngPath |-> <<>>]
NoError == [set |-> FALSE, e |-> Prim(Undefined)]
Thrown(e) == [set |-> TRUE, e |-> e]
NoResult == [raised |-> FALSE, value |-> <<>>]

Entries == {"cli", "toPageUrl", "renderToPng", "pngToPptx", "formatError"}

Init ==
    /\ entry \in Entries
    /\ pc = "start"
    /\ opts \in (IF entry = "cli" THEN CliOptions ELSE {NoOptions})
    /\ inputArg \in (IF entry = "toPageUrl" THEN ResolveInputs ELSE {<<>>})
    /\ errArg \in (IF entry = "formatError" THEN ErrArgs ELSE {Prim(Undefined)})
    /\ fsExists \in (IF entry \in {"cli", "toPageUrl"} THEN BOOLEAN ELSE {FALSE})
    /\ req \in (IF entry = "renderToPng" THEN DirectRequests ELSE {NoRequest})
    /\ pkg \in (IF entry = "pngToPptx" THEN DirectPackages ELSE {NoPackage})
    /\ locals = NoLocals
    /\ err = NoError
    /\ result = NoResult
    /\ probeLog = <<>>
    /\ browserLog = <<>>
    /\ docLog = <<>>
    /\ stageLog = <<>>
    /\ stdout = <<>>
    /\ stderr = <<>>
    /\ exitCode = -1

(***************************************************************************)
(* Logs of the calls made on the collaborators                             *)
(***************************************************************************)
\* a call on the browser automation API: its name, whether it fulfilled,
\* and its arguments
BrowserCall(op, ok, a) == [op |-> op, ok |-> ok, args |-> a]
\* a call on the slide document
DocCall(op, a) == [op |-> op, args |-> a]
\* a stage of the pipeline being called, returning or throwing
StageEvent(stage, ev, png) == [stage |-> stage, ev |-> ev, pngPath |-> png]

LaunchError == NewError(<<"b", "r", "o", "w", "s", "e", "r", "T", "y", "p", "e", ".", "l", "a", "u", "n", "c", "h", ":", " ", "E", "x", "e", "c", "u", "t", "a", "b", "l", "e", " ", "d", "o", "e", "s", "n", "'", "t", " ", "e", "x", "i", "s", "t">>)
NewPageError == NewError(<<"b", "r", "o", "w", "s", "e", "r", ".", "n", "e", "w", "P", "a", "g", "e", ":", " ", "T", "a", "r", "g", "e", "t", " ", "c", "l", "o", "s", "e", "d">>)
GotoErrors == { ErrorObj(Str(<<"p", "a", "g", "e", ".", "g", "o", "t", "o", ":", " ", "T", "i", "m", "e", "o", "u", "t", " ", "3", "0", "0", "0", "0", "m", "s", " ", "e", "x", "c", "e", "e", "d", "e", "d", ".">>), Str(<<"T", "i", "m", "e", "o", "u", "t", "E", "r", "r", "o", "r">>), Undefined),
                NewError(<<"p", "a", "g", "e", ".", "g", "o", "t", "o", ":", " ", "n", "e", "t", ":", ":", "E", "R", "R", "_", "N", "A", "M", "E", "_", "N", "O", "T", "_", "R", "E", "S", "O", "L", "V", "E", "D">>) }
SettleError == NewError(<<"p", "a", "g", "e", ".", "w", "a", "i", "t", "F", "o", "r", "T", "i", "m", "e", "o", "u", "t", ":", " ", "T", "a", "r", "g", "e", "t", " ", "c", "l", "o", "s", "e", "d">>)
CountError == NewError(<<"l", "o", "c", "a", "t", "o", "r", ".", "c", "o", "u", "n", "t", ":", " ", "T", "a", "r", "g", "e", "t", " ", "c", "l", "o", "s", "e", "d">>)
ScreenshotError == ErrorObj(Str(<<"E", "A", "C", "C", "E", "S", ":", " ", "p", "e", "r", "m", "i", "s", "s", "i", "o", "n", " ", "d", "e", "n", "i", "e", "d">>), Undefined, Str(<<"E", "A", "C", "C", "E", "S">>))
CloseError == NewError(<<"b", "r", "o", "w", "s", "e", "r", ".", "c", "l", "o", "s", "e", ":", " ", "C", "o", "n", "n", "e", "c", "t", "i", "o", "n", " ", "c", "l", "o", "s", "e", "d">>)
WriteFileError == ErrorObj(Str(<<"E", "N", "O", "E", "N", "T", ":", " ", "n", "o", " ", "s", "u", "c", "h", " ", "f", "i", "l", "e", " ", "o", "r", " ", "d", "i", "r", "e", "c", "t", "o", "r", "y">>), Undefined, Str(<<"E", "N", "O", "E", "N", "T">>))

SettleMs == 800

(***************************************************************************)
(* Direct calls of the exported functions                                  *)
(***************************************************************************)
Call_formatError ==
    /\ entry = "formatError" /\ pc = "start"
    /\ result' = formatError(errArg)
    /\ pc' = "done"
    /\ UNCHANGED <<entry, opts, inputArg, errArg, fsExists, locals, req, pkg, err, probeLog,
                   browserLog, docLog, stageLog, stdout, stderr, exitCode>>

Call_toPageUrl ==
    /\ entry = "toPageUrl" /\ pc = "start"
    /\ LET r == toPageUrl(inputArg, fsExists)
       IN /\ result' = [raised |-> r.raised, value |-> r.value]
          /\ err' = IF r.raised THEN Thrown(r.error) ELSE err
          /\ probeLog' = probeLog \o r.probes
    /\ pc' = "done"
    /\ UNCHANGED <<entry, opts, inputArg, errArg, fsExists, locals, req, pkg,
                   browserLog, docLog, stageLog, stdout, stderr, exitCode>>

Call_renderToPng ==
    /\ entry = "renderToPng" /\ pc = "start"
    /\ stageLog' = Append(stageLog, StageEvent("renderToPng", "call", req.pngPath))
    /\ pc' = "launch"
    /\ UNCHANGED <<entry, opts, inputArg, errArg, fsExists, locals, req, pkg, err, result,
                   probeLog, browserLog, docLog, stdout, stderr, exitCode>>

Call_pngToPptx ==
    /\ entry = "pngToPptx" /\ pc = "start"
    /\ stageLog' = Append(stageLog, StageEvent("pngToPptx", "call", pkg.pngPath))
    /\ pc' = "build"
    /\ UNCHANGED <<entry, opts, inputArg, errArg, fsExists, locals, req, pkg, err, result,
                   probeLog, browserLog, docLog, stdout, stderr, exitCode>>

(***************************************************************************)
(* main                                                                    *)
(***************************************************************************)
UsageLine == <<"U", "s", "a", "g", "e", ":", " ", "h", "t", "m", "l", "2", "p", "p", "t", "x", " ", "[", "o", "p", "t", "i", "o", "n", "s", "]", " ", "<", "i", "n", "p", "u", "t", ">">>

\* program.parse(process.argv), then pptxPath and pngPath
Main_Parse ==
    /\ entry = "cli" /\ pc = "start"
    /\ IF opts.kind # "ok"
       THEN /\ err' = Thrown(CommanderError(opts.kind))
            /\ stdout' = IF opts.kind = "help" THEN Append(stdout, UsageLine) ELSE stdout
            /\ pc' = "catch"
            /\ UNCHANGED locals
       ELSE /\ locals' = [pptxPath |-> MainPptxPath(opts), pngPath |-> MainPngPath(opts)]
            /\ pc' = "resolve"
            /\ UNCHANGED <<err, stdout>>
    /\ UNCHANGED <<entry, opts, inputArg, errArg, fsExists, req, pkg, result, probeLog,
                   browserLog, docLog, stageLog, stderr, exitCode>>

\* const pageUrl = _toPageUrl(input); the selector; the call of _renderToPng
Main_Resolve ==
    /\ entry = "cli" /\ pc = "resolve"
    /\ LET r == toPageUrl(opts.input, fsExists)
       IN /\ probeLog' = probeLog \o r.probes
          /\ IF r.raised
             THEN /\ err' = Thrown(r.error)
                  /\ stageLog' = stageLog \o << StageEvent("toPageUrl", "call", <<>>),
                                                StageEvent("toPageUrl", "throw", <<>>) >>
                  /\ pc' = "catch"
                  /\ UNCHANGED req
             ELSE /\ req' = Request(r.value, locals.pngPath, MainSelector(opts), opts.width,
                                    opts.height, opts.scale, opts.timeout, opts.wait)
                  /\ stageLog' = stageLog \o << StageEvent("toPageUrl", "call", <<>>),
                                                StageEvent("toPageUrl", "return", <<>>),
                                                StageEvent("renderToPng", "call", locals.pngPath) >>
                  /\ pc' = "launch"
                  /\ UNCHANGED err
    /\ UNCHANGED <<entry, opts, inputArg, errArg, fsExists, locals, pkg, result,
                   browserLog, docLog, stdout, stderr, exitCode>>

\* console.log(`OK: ${pptxPath}\n(intermediate) ${pngPath}`); main's promise
\* fulfils and the process ends
Main_Report ==
    /\ entry = "cli" /\ pc = "report"
    /\ stdout' = stdout \o << <<"O", "K", ":", " ">> \o locals.pptxPath, <<"(", "i", "n", "t", "e", "r", "m", "e", "d", "i", "a", "t", "e", ")", " ">> \o locals.pngPath >>
    /\ exitCode' = 0
    /\ pc' = "done"
    /\ UNCHANGED <<entry, opts, inputArg, errArg, fsExists, locals, req, pkg, err, result,
                   probeLog, browserLog, docLog, stageLog, stderr>>

\* main().catch((e) => ...)
Entry_Catch ==
    /\ entry = "cli" /\ pc = "catch"
    /\ stderr' = stderr \o CatchOutcome(err.e).stderr
    /\ exitCode' = CatchOutcome(err.e).exitCode
    /\ pc' = "done"
    /\ UNCHANGED <<entry, opts, inputArg, errArg, fsExists, locals, req, pkg, err, result,
                   probeLog, browserLog, docLog, stageLog, stdout>>

(***************************************************************************)
(* renderToPng                                                             *)
(***************************************************************************)
captureRest == <<entry, opts, inputArg, errArg, fsExists, locals, req, pkg, result,
                 probeLog, docLog, stdout, stderr, exitCode>>

\* const browser = await _chromium.launch()
Launch ==
    /\ pc = "launch"
    /\ \E ok \in BOOLEAN :
        /\ browserLog' = Append(browserLog, BrowserCall("launch", ok, <<>>))
        /\ IF ok THEN pc' = "newPage" /\ UNCHANGED err
                 ELSE pc' = "captureExit" /\ err' = Thrown(LaunchError)
    /\ UNCHANGED <<captureRest, stageLog>>

\* const page = await browser.newPage({...}), before the try block
NewPage ==
    /\ pc = "newPage"
    /\ \E ok \in BOOLEAN :
        /\ browserLog' = Append(browserLog, BrowserCall("newPage", ok,
                [width |-> req.width, height |-> req.height, deviceScaleFactor |-> req.scale]))
        /\ IF ok THEN pc' = "goto" /\ UNCHANGED err
                 ELSE pc' = "captureExit" /\ err' = Thrown(NewPageError)
    /\ UNCHANGED <<captureRest, stageLog>>

\* await page.goto(pageUrl, { waitUntil: waitUntil || "networkidle", timeout: timeout || 30000 })
GotoArgs(r) ==
    [url |-> r.pageUrl,
     waitUntil |-> IF Truthy(r.waitUntil) THEN r.waitUntil ELSE Str(<<"n", "e", "t", "w", "o", "r", "k", "i", "d", "l", "e">>),
     timeout |-> IF Truthy(r.timeout) THEN r.timeout ELSE Num(DefaultTimeout)]

Goto ==
    /\ pc = "goto"
    /\ \/ /\ browserLog' = Append(browserLog, BrowserCall("goto", TRUE, GotoArgs(req)))
          /\ pc' = "settle"
          /\ UNCHANGED err
       \/ \E e \in GotoErrors :
          /\ browserLog' = Append(browserLog, BrowserCall("goto", FALSE, GotoArgs(req)))
          /\ pc' = "finally"
          /\ err' = Thrown(e)
    /\ UNCHANGED <<captureRest, stageLog>>

\* await page.waitForTimeout(800)
Settle ==
    /\ pc = "settle"
    /\ \E ok \in BOOLEAN :
        /\ browserLog' = Append(browserLog, BrowserCall("waitForTimeout", ok, [ms |-> SettleMs]))
        /\ IF ok THEN pc' = "select" /\ UNCHANGED err
                 ELSE pc' = "finally" /\ err' = Thrown(SettleError)
    /\ UNCHANGED <<captureRest, stageLog>>


\* Variant: the count is not compared with 0
Locate_NoZeroCheck ==
    /\ pc = "select"
    /\ Truthy(req.selector)
    /\ \E n \in 0..MaxCount :
          /\ browserLog' = browserLog \o
                << BrowserCall("locator", TRUE, [selector |-> req.selector.s]),
                   BrowserCall("count", TRUE, [n |-> n]) >>
          /\ pc' = "elementShot"
          /\ UNCHANGED err
    /\ UNCHANGED <<captureRest, stageLog>>

\* if (selector): page.locator(selector), await loc.count(), the throw on 0
Locate ==
    /\ pc = "select"
    /\ Truthy(req.selector)
    /\ \/ \E n \in 0..MaxCount :
          /\ browserLog' = browserLog \o
                << BrowserCall("locator", TRUE, [selector |-> req.selector.s]),
                   BrowserCall("count", TRUE, [n |-> n]) >>
          /\ IF n = 0
             THEN /\ pc' = "finally"
                  /\ err' = Thrown(NewError(<<"S", "e", "l", "e", "c", "t", "o", "r", " ", "n", "o", "t", " ", "f", "o", "u", "n", "d", ":", " ">> \o PrimToString(req.selector)))
             ELSE /\ pc' = "elementShot"
                  /\ UNCHANGED err
       \/ /\ browserLog' = browserLog \o
                << BrowserCall("locator", TRUE, [selector |-> req.selector.s]),
                   BrowserCall("count", FALSE, [n |-> 0]) >>
          /\ pc' = "finally"
          /\ err' = Thrown(CountError)
    /\ UNCHANGED <<captureRest, stageLog>>

\* await loc.first().screenshot({ path: pngPath })
ElementShot ==
    /\ pc = "elementShot"
    /\ \E ok \in BOOLEAN :
        /\ browserLog' = browserLog \o
              << BrowserCall("first", TRUE, <<>>),
                 BrowserCall("elementScreenshot", ok, [path |-> req.pngPath]) >>
        /\ err' = IF ok THEN err ELSE Thrown(ScreenshotError)
    /\ pc' = "finally"
    /\ UNCHANGED <<captureRest, stageLog>>

\* else: await page.screenshot({ path: pngPath, fullPage: true })
PageShot ==
    /\ pc = "select"
    /\ ~Truthy(req.selector)
    /\ \E ok \in BOOLEAN :
        /\ browserLog' = Append(browserLog,
              BrowserCall("pageScreenshot", ok, [path |-> req.pngPath, fullPage |-> TRUE]))
        /\ err' = IF ok THEN err ELSE Thrown(ScreenshotError)
    /\ pc' = "finally"
    /\ UNCHANGED <<captureRest, stageLog>>

\* finally { await browser.close() }: a rejection of close replaces the
\* pending error
Close ==
    /\ pc = "finally"
    /\ \E ok \in BOOLEAN :
        /\ browserLog' = Append(browserLog, BrowserCall("close", ok, <<>>))
        /\ err' = IF ok THEN err ELSE Thrown(CloseError)
    /\ pc' = "captureExit"
    /\ UNCHANGED <<captureRest, stageLog>>


\* Variant: main calls _pngToPptx although renderToPng rejected
CaptureExit_IgnoresRejection ==
    /\ pc = "captureExit"
    /\ IF entry = "cli"
       THEN /\ pkg' = Package(locals.pngPath, locals.pptxPath, "true")
            /\ stageLog' = stageLog \o
                  << StageEvent("renderToPng", IF err.set THEN "throw" ELSE "return", req.pngPath),
                     StageEvent("pngToPptx", "call", locals.pngPath) >>
            /\ pc' = "build"
       ELSE /\ stageLog' = Append(stageLog,
                  StageEvent("renderToPng", IF err.set THEN "throw" ELSE "return", req.pngPath))
            /\ pc' = "done"
            /\ UNCHANGED pkg
    /\ UNCHANGED <<entry, opts, inputArg, errArg, fsExists, locals, req, err, result,
                   probeLog, browserLog, docLog, stdout, stderr, exitCode>>

\* renderToPng's promise settles; main goes on to call _pngToPptx
CaptureExit ==
    /\ pc = "captureExit"
    /\ IF err.set
       THEN /\ stageLog' = Append(stageLog, StageEvent("renderToPng", "throw", req.pngPath))
            /\ pc' = IF entry = "cli" THEN "catch" ELSE "done"
            /\ UNCHANGED pkg
       ELSE IF entry = "cli"
       THEN /\ pkg' = Package(locals.pngPath, locals.pptxPath, "true")
            /\ stageLog' = stageLog \o << StageEvent("renderToPng", "return", req.pngPath),
                                          StageEvent("pngToPptx", "call", locals.pngPath) >>
            /\ pc' = "build"
       ELSE /\ stageLog' = Append(stageLog, StageEvent("renderToPng", "return", req.pngPath))
            /\ pc' = "done"
            /\ UNCHANGED pkg
    /\ UNCHANGED <<entry, opts, inputArg, errArg, fsExists, locals, req, err, result,
                   probeLog, browserLog, docLog, stdout, stderr, exitCode>>

(***************************************************************************)
(* pngToPptx                                                               *)
(***************************************************************************)
WideWidth == 13333
WideHeight == 7500
ImageWidth == 13333
ImageHeight == 7500

\* The layout of a new PptxGenJS document: LAYOUT_16x9, 10 x 5.625 inches.
\* Lengths are in thousandths of an inch.
DefaultLayout == [name |-> <<"L", "A", "Y", "O", "U", "T", "_", "1", "6", "x", "9">>, width |-> 10000, height |-> 5625]

\* { pngPath, pptxPath, widescreen = true }
Widescreen(p) == p.widescreen # "false"

\* the calls pngToPptx makes on the document before it writes the file
BuildCalls(p) ==
    << DocCall("new", <<>>) >>
    \o (IF Widescreen(p)
        THEN << DocCall("defineLayout",
                        [name |-> <<"W", "I", "D", "E", "_", "1", "6", "x", "9">>, width |-> WideWidth, height |-> WideHeight]),
                DocCall("setLayout", [name |-> <<"W", "I", "D", "E", "_", "1", "6", "x", "9">>]) >>
        ELSE <<>>)
    \o << DocCall("addSlide", <<>>),
          DocCall("addImage", [path |-> p.pngPath, x |-> 0, y |-> 0,
                               w |-> ImageWidth, h |-> ImageHeight]) >>

Build ==
    /\ pc = "build"
    /\ docLog' = docLog \o BuildCalls(pkg)
    /\ pc' = "write"
    /\ UNCHANGED <<entry, opts, inputArg, errArg, fsExists, locals, req, pkg, err, result,
                   probeLog, browserLog, stageLog, stdout, stderr, exitCode>>

\* await pptx.writeFile({ fileName: pptxPath }), and the return to the caller
WriteFile ==
    /\ pc = "write"
    /\ \E ok \in BOOLEAN :
        /\ docLog' = Append(docLog, DocCall("writeFile", [fileName |-> pkg.pptxPath, ok |-> ok]))
        /\ err' = IF ok THEN err ELSE Thrown(WriteFileError)
        /\ stageLog' = Append(stageLog,
              StageEvent("pngToPptx", IF ok THEN "return" ELSE "throw", pkg.pngPath))
        /\ pc' = IF entry # "cli" THEN "done" ELSE IF ok THEN "report" ELSE "catch"
    /\ UNCHANGED <<entry, opts, inputArg, errArg, fsExists, locals, req, pkg, result,
                   probeLog, browserLog, stdout, stderr, exitCode>>

Next ==
    \/ Call_formatError
    \/ Call_toPageUrl
    \/ Call_renderToPng
    \/ Call_pngToPptx
    \/ Main_Parse
    \/ Main_Resolve
    \/ Main_Report
    \/ Entry_Catch
    \/ Launch
    \/ NewPage
    \/ Goto
    \/ Settle
    \/ Locate
    \/ ElementShot
    \/ PageShot
    \/ Close
    \/ CaptureExit
    \/ Build
    \/ WriteFile

Spec == Init /\ [][Next]_vars

(***************************************************************************)
(* Properties                                                              *)
(***************************************************************************)
Ops(log, ops) == {i \in 1..Len(log) : log[i].op \in ops}
StageEvents(stage, evs) ==
    {i \in 1..Len(stageLog) : stageLog[i].stage = stage /\ stageLog[i].ev \in evs}
CaptureExited == StageEvents("renderToPng", {"return", "throw"}) # {}
LaunchSucceeded == \E i \in Ops(browserLog, {"launch"}) : browserLog[i].ok

\* C1: once a call of renderToPng whose launch succeeded has returned or
\* thrown to its caller, browser.close has been called exactly once, on
\* every exit path (a failure of newPage included).
C1_CloseOnEveryExit ==
    (CaptureExited /\ LaunchSucceeded) => Cardinality(Ops(browserLog, {"close"})) = 1

Pipeline == <<"toPageUrl", "renderToPng", "pngToPptx">>
StageCalls == SelectSeq(stageLog, LAMBDA e : e.ev = "call")

\* C2: in a run of main the stages are called in the order toPageUrl,
\* renderToPng, pngToPptx, each at most once; every stage after the first is
\* called right after the stage before it returned; the browser is used only
\* inside renderToPng and never when toPageUrl threw; pngToPptx is given the
\* image path renderToPng was given.
C2_StageOrder ==
    entry = "cli" =>
        /\ Len(StageCalls) <= Len(Pipeline)
        /\ \A i \in 1..Len(StageCalls) : StageCalls[i].stage = Pipeline[i]
        /\ \A i \in 1..Len(stageLog) :
              (stageLog[i].ev = "call" /\ stageLog[i].stage # Pipeline[1]) =>
                 /\ i > 1
                 /\ stageLog[i - 1].ev = "return"
                 /\ \E k \in 2..Len(Pipeline) :
                       stageLog[i].stage = Pipeline[k] /\ stageLog[i - 1].stage = Pipeline[k - 1]
        /\ StageEvents("toPageUrl", {"throw"}) # {} => browserLog = <<>>
        /\ browserLog # <<>> => StageEvents("renderToPng", {"call"}) # {}
        /\ docLog # <<>> => StageEvents("renderToPng", {"return"}) # {}
        /\ \A i \in StageEvents("pngToPptx", {"call"}) :
              /\ stageLog[i].pngPath = req.pngPath
              /\ pkg.pngPath = req.pngPath
              /\ \A j \in StageEvents("renderToPng", {"call"}) :
                    stageLog[j].pngPath = stageLog[i].pngPath

C2_Witness ==
    /\ entry = "cli"
    /\ pc = "done"
    /\ Len(StageCalls) = Len(Pipeline)
    /\ StageEvents("pngToPptx", {"return"}) # {}

AllStagesReturned ==
    \A k \in 1..Len(Pipeline) : StageEvents(Pipeline[k], {"return"}) # {}
SomeStageThrew ==
    \E k \in 1..Len(Pipeline) : StageEvents(Pipeline[k], {"throw"}) # {}
OkReport == << <<"O", "K", ":", " ">> \o locals.pptxPath, <<"(", "i", "n", "t", "e", "r", "m", "e", "d", "i", "a", "t", "e", ")", " ">> \o locals.pngPath >>
HasOkLine(out) == \E i \in 1..Len(out) : StartsWith(out[i], <<"O", "K", ":", " ">>)

OutcomeSuccess ==
    /\ exitCode = 0
    /\ stdout = OkReport
    /\ stderr = <<>>
    /\ AllStagesReturned
OutcomeFailure ==
    /\ exitCode = 1
    /\ Len(stderr) = 1
    /\ ~formatError(err.e).raised
    /\ stderr[1] = formatError(err.e).value
    /\ StartsWith(stderr[1], <<"E", "r", "r", "o", "r", ":", " ">>)
    /\ ~HasOkLine(stdout)
    /\ ~AllStagesReturned
OutcomeUsage ==
    /\ exitCode = 0
    /\ stageLog = <<>> /\ browserLog = <<>> /\ docLog = <<>> /\ probeLog = <<>>
    /\ stdout = <<UsageLine>>
    /\ stderr = <<>>

\* C3: a finished run of the entry point ended in exactly one of three ways:
\* exit code 0 with the OK report, exactly when all three stages returned;
\* exit code 1 with one translated line on stderr and no OK report, whenever
\* argument parsing (other than a help display) or a stage failed; exit code
\* 0 with no stage run and nothing printed beyond the usage text, on help.
\* Until it has finished nothing is reported and no exit code is set.
C3_ProcessOutcome ==
    entry = "cli" =>
        IF pc = "done"
        THEN /\ (OutcomeSuccess /\ ~OutcomeFailure /\ ~OutcomeUsage)
                \/ (~OutcomeSuccess /\ OutcomeFailure /\ ~OutcomeUsage)
                \/ (~OutcomeSuccess /\ ~OutcomeFailure /\ OutcomeUsage)
             /\ OutcomeSuccess <=> AllStagesReturned
             /\ (SomeStageThrew \/ opts.kind \in ParseFailures \ {"help"}) => OutcomeFailure
             /\ opts.kind = "help" <=> OutcomeUsage
        ELSE exitCode = -1 /\ stderr = <<>> /\ ~HasOkLine(stdout)

C3_Witness ==
    /\ entry = "cli"
    /\ pc = "done"
    /\ OutcomeFailure
    /\ StageEvents("pngToPptx", {"throw"}) # {}

\* C4: formatError returns a string and never raises, whatever value it is
\* called with (null, undefined, a string, an object with any message).
C4_FormatErrorTotal ==
    (entry = "formatError" /\ pc = "done") => ~result.raised

FallbackCase ==
    /\ entry = "formatError"
    /\ pc = "done"
    /\ ~result.raised
    /\ MatchedRule(errArg, RawMessage(errArg).s) = 0

C6_Resolve ==
    (entry = "toPageUrl" /\ pc = "done") =>
        IF isHttpUrl(inputArg)
        THEN ~result.raised /\ result.value = inputArg /\ probeLog = <<>> /\ ~err.set
        ELSE /\ Len(probeLog) = 1
             /\ probeLog[1] = PathResolve(inputArg)
             /\ Head(probeLog[1]) = "/"
             /\ fsExists => /\ ~result.raised
                            /\ StartsWith(result.value, <<"f", "i", "l", "e", ":", "/", "/">>)
                            /\ ~err.set
             /\ ~fsExists => /\ result.raised
                             /\ err.set
                             /\ err.e.message.t = "string"
                             /\ StartsWith(err.e.message.s, <<"H", "T", "M", "L", " ", "f", "i", "l", "e", " ", "n", "o", "t", " ", "f", "o", "u", "n", "d">>)
                             /\ EndsWith(err.e.message.s, probeLog[1])

C6_Witness ==
    /\ entry = "toPageUrl"
    /\ pc = "done"
    /\ inputArg = <<".", ".", "/", "a", " ", "b", ".", "h", "t", "m", "l">>
    /\ result.raised
    /\ probeLog = << <<"/", "a", " ", "b", ".", "h", "t", "m", "l">> >>

Shots == Ops(browserLog, {"elementScreenshot", "pageScreenshot"})
SelectorSet == req.selector.t = "string" /\ req.selector.s # <<>>
CountedZero == \E i \in Ops(browserLog, {"count"}) : browserLog[i].ok /\ browserLog[i].args.n = 0

DocOps(ops) == {i \in 1..Len(docLog) : docLog[i].op \in ops}
CanvasAt(i) ==
    LET sets == {j \in DocOps({"setLayout"}) : j < i}
    IN IF sets = {} THEN DefaultLayout
       ELSE LET last == CHOOSE j \in sets : \A k \in sets : k <= j
                defs == {d \in DocOps({"defineLayout"}) :
                            d < last /\ docLog[d].args.name = docLog[last].args.name}
            IN IF defs = {} THEN DefaultLayout
               ELSE docLog[CHOOSE d \in defs : \A k \in defs : k <= d].args

\* C8: pngToPptx adds one slide with one image at x = 0, y = 0 whose width
\* and height are those of the active canvas: the 13.333 x 7.5 layout,
\* defined and selected before the image is added, when widescreen; the
\* document's default layout, with no layout defined, when not.
C8_ImageFillsCanvas ==
    pc \in {"write", "report", "catch", "done"} /\ docLog # <<>> =>
        /\ Cardinality(DocOps({"addSlide"})) = 1
        /\ Cardinality(DocOps({"addImage"})) = 1
        /\ \A i \in DocOps({"addImage"}) :
              /\ docLog[i].args.x = 0
              /\ docLog[i].args.y = 0
              /\ docLog[i].args.w = CanvasAt(i).width
              /\ docLog[i].args.h = CanvasAt(i).height
              /\ IF Widescreen(pkg)
                 THEN CanvasAt(i).width = 13333 /\ CanvasAt(i).height = 7500
                 ELSE DocOps({"defineLayout"}) = {} /\ CanvasAt(i) = DefaultLayout

LocalsSet == entry = "cli" /\ opts.kind = "ok" /\ pc # "start"

\* the path p with the extension of its last segment replaced by ext
LastSlash(p) == CHOOSE i \in 1..Len(p) : p[i] = "/" /\ \A j \in (i + 1)..Len(p) : p[j] # "/"
WithExtension(p, ext) ==
    LET dots == {i \in (LastSlash(p) + 2)..Len(p) : p[i] = "."}
    IN IF dots = {} THEN p \o ext
       ELSE SubSeq(p, 1, (CHOOSE i \in dots : \A j \in dots : j <= i) - 1) \o ext

\* C9 as stated: without --png the image path is the resolved slide path
\* with its extension replaced by ".png", for every --out; with --png it is
\* the resolved --png value.
C9_PngPathReplacesExtension ==
    LocalsSet =>
        /\ locals.pptxPath = PathResolve(opts.out)
        /\ opts.png = Undefined => locals.pngPath = WithExtension(locals.pptxPath, <<".", "p", "n", "g">>)
        /\ opts.png # Undefined => locals.pngPath = PathResolve(opts.png.s)

\* C9 amended: when --png is absent or empty the image path is the resolved
\* slide path, without its trailing ".pptx" (in any letter case) when it has
\* one, followed by ".png"; when --png is non-empty it is the resolved --png
\* value.
C9_PngPathStripsPptx ==
    LocalsSet =>
        /\ locals.pptxPath = PathResolve(opts.out)
        /\ (opts.png = Undefined \/ opts.png = Str(<<>>)) =>
              LET n == Len(locals.pngPath) - 4
                  stem == SubSeq(locals.pngPath, 1, n)
                  x == Len(locals.pptxPath)
              IN /\ n >= 0
                 /\ SubSeq(locals.pngPath, n + 1, n + 4) = <<".", "p", "n", "g">>
                 /\ IF x >= 5 /\ LowerStr(SubSeq(locals.pptxPath, x - 4, x)) = <<".", "p", "p", "t", "x">>
                    THEN stem = SubSeq(locals.pptxPath, 1, x - 5)
                    ELSE stem = locals.pptxPath
        /\ (opts.png # Undefined /\ opts.png # Str(<<>>)) =>
              locals.pngPath = PathResolve(opts.png.s)

C9_Witness ==
    /\ LocalsSet
    /\ opts.png = Undefined
    /\ opts.out = <<"D", "e", "c", "k", ".", "P", "P", "T", "X">>
    /\ locals.pngPath = <<"/", "w", "/", "D", "e", "c", "k", ".", "p", "n", "g">>

RequestBuilt == entry = "cli" /\ StageEvents("renderToPng", {"call"}) # {}

\* C10: the selector main passes to renderToPng is null when the --selector
\* value is empty or all white space, and is otherwise a string that is not
\* empty after trimming (it has a character that is not white space).
C10_SelectorNormalised ==
    RequestBuilt =>
        IF \A i \in 1..Len(opts.selector) : opts.selector[i] \in WhiteSpace
        THEN req.selector = Null
        ELSE /\ req.selector.t = "string"
             /\ \E i \in 1..Len(req.selector.s) : req.selector.s[i] \notin WhiteSpace

C10_Witness ==
    /\ RequestBuilt
    /\ opts.selector = <<"\t", " ", "\n">>
    /\ req.selector = Null
    /\ Ops(browserLog, {"pageScreenshot"}) # {}

PositiveInt(v) == v.t = "number" /\ v.n > 0
WaitStrategies == { <<"l", "o", "a", "d">>, <<"d", "o", "m", "c", "o", "n", "t", "e", "n", "t", "l", "o", "a", "d", "e", "d">>, <<"n", "e", "t", "w", "o", "r", "k", "i", "d", "l", "e">>, <<"c", "o", "m", "m", "i", "t">> }

\* C11: whatever the command line, the request main hands to renderToPng and
\* the arguments renderToPng hands to newPage and goto have a viewport width
\* and height that are positive integers, a positive scale factor, a
\* navigation timeout that is a positive integer and the value the user
\* configured, and a wait strategy among load, domcontentloaded,
\* networkidle, commit.
C11_RequestWellFormed ==
    entry = "cli" =>
        /\ RequestBuilt =>
              /\ PositiveInt(req.width)
              /\ PositiveInt(req.height)
              /\ PositiveInt(req.scale)
              /\ PositiveInt(req.timeout)
              /\ req.timeout = opts.timeout
              /\ req.waitUntil.t = "string"
              /\ req.waitUntil.s \in WaitStrategies
        /\ \A i \in Ops(browserLog, {"newPage"}) :
              /\ PositiveInt(browserLog[i].args.width)
              /\ PositiveInt(browserLog[i].args.height)
              /\ PositiveInt(browserLog[i].args.deviceScaleFactor)
        /\ \A i \in Ops(browserLog, {"goto"}) :
              /\ PositiveInt(browserLog[i].args.timeout)
              /\ browserLog[i].args.timeout = opts.timeout
              /\ browserLog[i].args.waitUntil.t = "string"
              /\ browserLog[i].args.waitUntil.s \in WaitStrategies

====
